---- MODULE Spec2Model ----
(***************************************************************************)
(* A model of the `syx` command line tool (src/src/main.rs): the six       *)
(* subcommands identify, extract, split, sections, receive and make, each  *)
(* as one action over the input it reads and the output it produces.       *)
(*                                                                         *)
(* The tool calls the syxpack library (Message, Manufacturer,              *)
(* message_count, split_messages, find_manufacturer) and the hex crate.    *)
(* The library's source is not part of src/; its operators below follow    *)
(* sections 4.1 to 4.5 of the specification.                               *)
(*                                                                         *)
(* Environment: a file that is created can be written, and the input path  *)
(* of split has a stem and an extension.  A missing input file is          *)
(* modelled (read_file gives None).                                        *)
(***************************************************************************)
EXTENDS Integers, Sequences, FiniteSets, TLC

VARIABLES
    cmd,          \* the subcommand main dispatches to
    pc,           \* "start", "reading", "done", "exit1", "panic_unwrap", "panic_overflow"
    fileExists,   \* whether read_file finds the input file
    buffer,       \* the bytes of the input file
    messages,     \* identify: all_messages, the messages identified
    reported,     \* the error the command printed, "none" when it printed none
    outfile,      \* extract, make: the output file [exists, bytes]
    splitFiles,   \* split: the numbered output files, number -> bytes
    sections,     \* sections: the MessageSection values printed
    nread,        \* receive: the number of lines read from standard input
    input,        \* receive: the line read last, split at whitespace
    data,         \* receive: the buffer assembled from the line read last
    clock,        \* receive: epoch_now.as_secs() at the last write
    files,        \* receive: the timestamp-named files, second -> bytes
    writes,       \* receive: the writes done so far, in order, each <<second, bytes>>
    manufacturer, \* make: the --manufacturer argument, a sequence of characters
    payload,      \* make: the --payload argument, a sequence of characters
    made          \* make: the Message constructed

vars == <<cmd, pc, fileExists, buffer, messages, reported, outfile, splitFiles,
          sections, nread, input, data, clock, files, writes, manufacturer,
          payload, made>>

(***************************************************************************)
(* Bounds of the model.                                                    *)
(***************************************************************************)
MaxLen == 6          \* longest input file, in bytes
MaxTokens == 5       \* most tokens of the line handed to the assembler
MaxParts == 3        \* most tokens of a line of the receive loop
MaxLines == 2        \* most lines the receive loop reads
MaxSecond == 1       \* the clock reads a second in 0..MaxSecond
MaxManufChars == 6   \* longest --manufacturer argument
MaxPayloadChars == 2 \* longest --payload argument

\* The byte values input files are drawn from:
\* 0x00, 0x42, 0x7E, 0x7F, 0x80, 0xF0, 0xF7.
FileBytes == {0, 66, 126, 127, 128, 240, 247}

BoundedSeq(S, n) == UNION {[1..k -> S] : k \in 0..n}

(***************************************************************************)
(* Constants of the wire format.                                           *)
(***************************************************************************)
INITIATOR == 240
TERMINATOR == 247
NON_REAL_TIME == 126
REAL_TIME == 127
\* usize::MAX stands for 2^64 - 1; only its being larger than any offset matters.
USIZE_MAX == 2147483647

(***************************************************************************)
(* syxpack: Manufacturer                                                   *)
(***************************************************************************)
ManufOk(bytes) == [ok |-> TRUE, code |-> bytes, err |-> "none"]
ManufErr(e) == [ok |-> FALSE, code |-> <<>>, err |-> e]

\* Manufacturer::new(bytes)
Manufacturer_new(bytes) ==
    IF Len(bytes) = 1
    THEN IF bytes[1] >= 1 /\ bytes[1] <= 127
         THEN ManufOk(bytes)
         ELSE ManufErr("InvalidManufacturer")
    ELSE IF Len(bytes) = 3
         THEN IF bytes[1] = 0
              THEN ManufOk(bytes)
              ELSE ManufErr("InvalidManufacturerPrefix")
         ELSE ManufErr("InvalidManufacturerLength")

\* Manufacturer::to_bytes(): the code bytes
Manufacturer_to_bytes(code) == code

(***************************************************************************)
(* syxpack: Message                                                        *)
(***************************************************************************)
ManufacturerSpecific(m, p) ==
    [variant |-> "ManufacturerSpecific", manufacturer |-> m, payload |-> p]
Universal(k, t, s1, s2, p) ==
    [variant |-> "Universal", kind |-> k, target |-> t, sub_id1 |-> s1,
     sub_id2 |-> s2, payload |-> p]
NoMessage == [variant |-> "none"]

ParseOk(m) == [ok |-> TRUE, msg |-> m, err |-> "none"]
ParseErr(e) == [ok |-> FALSE, msg |-> NoMessage, err |-> e]

\* Message::new(buffer): the Parser
Message_new(b) ==
    IF Len(b) < 2 \/ b[1] # INITIATOR \/ b[Len(b)] # TERMINATOR
    THEN ParseErr("MalformedFraming")
    ELSE LET body == SubSeq(b, 2, Len(b) - 1)
         IN  IF body = <<>>
             THEN ParseErr("TruncatedHeader")
             ELSE IF body[1] \in {NON_REAL_TIME, REAL_TIME}
             THEN IF Len(body) < 4
                  THEN ParseErr("TruncatedHeader")
                  ELSE ParseOk(Universal(body[1], body[2], body[3], body[4],
                                         SubSeq(body, 5, Len(body))))
             ELSE IF body[1] = 0
             THEN IF Len(body) < 3
                  THEN ParseErr("TruncatedHeader")
                  ELSE LET m == Manufacturer_new(SubSeq(body, 1, 3))
                       IN  IF m.ok
                           THEN ParseOk(ManufacturerSpecific(m.code,
                                            SubSeq(body, 4, Len(body))))
                           ELSE ParseErr(m.err)
             ELSE LET m == Manufacturer_new(<<body[1]>>)
                  IN  IF m.ok
                      THEN ParseOk(ManufacturerSpecific(m.code,
                                       SubSeq(body, 2, Len(body))))
                      ELSE ParseErr(m.err)

\* Message::to_bytes(): the Codec
Message_to_bytes(m) ==
    IF m.variant = "ManufacturerSpecific"
    THEN <<INITIATOR>> \o Manufacturer_to_bytes(m.manufacturer) \o m.payload
             \o <<TERMINATOR>>
    ELSE <<INITIATOR>> \o <<m.kind, m.target, m.sub_id1, m.sub_id2>> \o m.payload
             \o <<TERMINATOR>>

(***************************************************************************)
(* syxpack: the Splitter.  Both scans track whether they are inside a      *)
(* message opened by the most recent unterminated initiator.               *)
(***************************************************************************)
RECURSIVE CountFrom(_, _, _)
CountFrom(b, i, inside) ==
    IF i > Len(b) THEN 0
    ELSE IF b[i] = INITIATOR THEN CountFrom(b, i + 1, TRUE)
    ELSE IF b[i] = TERMINATOR /\ inside THEN 1 + CountFrom(b, i + 1, FALSE)
    ELSE CountFrom(b, i + 1, inside)

\* message_count(buffer)
message_count(b) == CountFrom(b, 1, FALSE)

\* start = 0: outside any message; otherwise the index of the open initiator
RECURSIVE SplitFrom(_, _, _)
SplitFrom(b, i, start) ==
    IF i > Len(b) THEN <<>>
    ELSE IF b[i] = INITIATOR THEN SplitFrom(b, i + 1, i)
    ELSE IF b[i] = TERMINATOR /\ start # 0
         THEN <<SubSeq(b, start, i)>> \o SplitFrom(b, i + 1, 0)
    ELSE SplitFrom(b, i + 1, start)

\* split_messages(buffer)
split_messages(b) == SplitFrom(b, 1, 0)

(***************************************************************************)
(* The output file of extract and make.                                    *)
(***************************************************************************)
Absent == [exists |-> FALSE, bytes |-> <<>>]
Written(bytes) == [exists |-> TRUE, bytes |-> bytes]
\* a file that is there before the command runs
Stale == Written(<<1>>)

(***************************************************************************)
(* Initial states: the arguments and the files the command finds.          *)
(***************************************************************************)
Idle ==
    /\ messages = <<>>
    /\ reported = "none"
    /\ splitFiles = <<>>
    /\ sections = <<>>
    /\ nread = 0
    /\ input = <<>>
    /\ data = <<>>
    /\ clock = 0
    /\ files = <<>>
    /\ writes = <<>>
    /\ made = NoMessage

InputFile ==
    \/ fileExists = TRUE /\ buffer \in BoundedSeq(FileBytes, MaxLen)
    \/ fileExists = FALSE /\ buffer = <<>>

NoArgs == manufacturer = <<>> /\ payload = <<>>

InitIdentify ==
    cmd = "identify" /\ pc = "start" /\ InputFile /\ outfile = Absent /\ NoArgs /\ Idle

InitExtract ==
    /\ cmd = "extract" /\ pc = "start" /\ InputFile /\ NoArgs /\ Idle
    /\ outfile \in {Absent, Stale}

InitSplit ==
    cmd = "split" /\ pc = "start" /\ InputFile /\ outfile = Absent /\ NoArgs /\ Idle

InitSections ==
    cmd = "sections" /\ pc = "start" /\ InputFile /\ outfile = Absent /\ NoArgs /\ Idle

(***************************************************************************)
(* identify                                                                *)
(***************************************************************************)
\* lines 99-110: the buffers handed to Message::new
IdentifyParts(b) ==
    LET count == message_count(b)
    IN  IF count = 1 THEN <<b>>
        ELSE IF count > 1 THEN split_messages(b)
        ELSE <<>>

run_identify ==
    /\ cmd = "identify" /\ pc = "start"
    /\ IF ~fileExists
       THEN pc' = "done" /\ messages' = messages
       ELSE LET parts == IdentifyParts(buffer)
                results == [i \in 1..Len(parts) |-> Message_new(parts[i])]
            IN  IF \E i \in 1..Len(parts) : ~results[i].ok
                THEN pc' = "panic_unwrap" /\ messages' = messages
                ELSE /\ pc' = "done"
                     /\ messages' = [i \in 1..Len(parts) |-> results[i].msg]
    /\ UNCHANGED <<cmd, fileExists, buffer, reported, outfile, splitFiles,
                   sections, nread, input, data, clock, files, writes,
                   manufacturer, payload, made>>

(***************************************************************************)
(* extract                                                                 *)
(***************************************************************************)
\* a plausible slip: the check for several messages is left out
ExtractNoCountCheck(b, out) ==
    LET r == Message_new(b)
    IN  IF r.ok
        THEN [file |-> Written(r.msg.payload), said |-> "none"]
        ELSE [file |-> out, said |-> r.err]

\* lines 141-159: the output file after the command and what it printed
Extract(b, out) ==
    IF message_count(b) > 1
    THEN [file |-> out, said |-> "MoreThanOneMessage"]
    ELSE LET r == Message_new(b)
         IN  IF r.ok
             THEN [file |-> Written(r.msg.payload), said |-> "none"]
             ELSE [file |-> out, said |-> r.err]

run_extract ==
    /\ cmd = "extract" /\ pc = "start"
    /\ pc' = "done"
    /\ IF ~fileExists
       THEN UNCHANGED <<outfile, reported>>
       ELSE /\ outfile' = Extract(buffer, outfile).file
            /\ reported' = Extract(buffer, outfile).said
    /\ UNCHANGED <<cmd, fileExists, buffer, messages, splitFiles, sections,
                   nread, input, data, clock, files, writes, manufacturer,
                   payload, made>>

(***************************************************************************)
(* split                                                                   *)
(***************************************************************************)
\* a plausible slip: the files are numbered from 0
SplitOutputsFromZero(msgs) == [n \in 0..(Len(msgs) - 1) |-> msgs[n + 1]]

\* lines 178-190: message i of the enumeration goes to the file numbered i + 1
SplitOutputs(msgs) == [n \in 1..Len(msgs) |-> msgs[(n - 1) + 1]]

run_split ==
    /\ cmd = "split" /\ pc = "start"
    /\ pc' = "done"
    /\ IF ~fileExists
       THEN splitFiles' = splitFiles
       ELSE LET count == message_count(buffer)
            IN  IF count > 1
                THEN splitFiles' = SplitOutputs(split_messages(buffer))
                ELSE splitFiles' = splitFiles
    /\ UNCHANGED <<cmd, fileExists, buffer, messages, reported, outfile,
                   sections, nread, input, data, clock, files, writes,
                   manufacturer, payload, made>>

(***************************************************************************)
(* sections                                                                *)
(***************************************************************************)
MessageSection(k, n, o, l) == [kind |-> k, name |-> n, offset |-> o, length |-> l]

\* lines 245-283: the sections pushed for the parse result, from offset 1
VariantSections(r) ==
    IF ~r.ok THEN <<>>
    ELSE IF r.msg.variant = "ManufacturerSpecific"
    THEN LET mlen == Len(Manufacturer_to_bytes(r.msg.manufacturer))
         IN  << MessageSection("Manufacturer", "Manufacturer", 1, mlen),
                MessageSection("Payload", "Message Payload", 1 + mlen,
                               Len(r.msg.payload)) >>
    ELSE << MessageSection("Universal", "Universal", 1, 3) >>

run_sections ==
    /\ cmd = "sections" /\ pc = "start"
    /\ IF ~fileExists
       THEN pc' = "done" /\ UNCHANGED <<sections, reported>>
       ELSE IF message_count(buffer) > 1
       THEN pc' = "exit1" /\ reported' = "MoreThanOneMessage" /\ sections' = sections
       ELSE LET r == Message_new(buffer)
                head == << MessageSection("Initiator", "System Exclusive Initiator", 0, 1) >>
                           \o VariantSections(r)
            IN  /\ reported' = r.err
                /\ IF Len(buffer) >= 1
                   THEN /\ pc' = "done"
                        /\ sections' = Append(head,
                               MessageSection("Terminator", "System Exclusive Terminator",
                                              Len(buffer) - 1, 1))
                   ELSE \* buffer.len() - 1 on an empty buffer: the debug build
                        \* panics, the release build wraps around
                        \/ pc' = "panic_overflow" /\ sections' = sections
                        \/ /\ pc' = "done"
                           /\ sections' = Append(head,
                                  MessageSection("Terminator", "System Exclusive Terminator",
                                                 USIZE_MAX, 1))
    /\ UNCHANGED <<cmd, fileExists, buffer, messages, outfile, splitFiles,
                   nread, input, data, clock, files, writes, manufacturer,
                   payload, made>>

SpecIdentify == InitIdentify /\ [][run_identify]_vars
SpecExtract == InitExtract /\ [][run_extract]_vars
SpecSplit == InitSplit /\ [][run_split]_vars
SpecSections == InitSections /\ [][run_sections]_vars

(***************************************************************************)
(* Text: a token or an argument is a sequence of characters.               *)
(***************************************************************************)
LowerDigits == << "0", "1", "2", "3", "4", "5", "6", "7", "8", "9",
                  "a", "b", "c", "d", "e", "f", "g", "h", "i", "j", "k", "l", "m",
                  "n", "o", "p", "q", "r", "s", "t", "u", "v", "w", "x", "y", "z" >>
UpperDigits == << "0", "1", "2", "3", "4", "5", "6", "7", "8", "9",
                  "A", "B", "C", "D", "E", "F", "G", "H", "I", "J", "K", "L", "M",
                  "N", "O", "P", "Q", "R", "S", "T", "U", "V", "W", "X", "Y", "Z" >>

\* the index of c in digits, 0 when it is not there
IndexIn(digits, c) ==
    IF \E i \in 1..Len(digits) : digits[i] = c
    THEN CHOOSE i \in 1..Len(digits) : digits[i] = c
    ELSE 0

\* no digit has this value
NoDigit == Len(LowerDigits)
\* char::to_digit(radix): the value of c as a digit, NoDigit when it is none
to_digit(c, radix) ==
    LET i == IF IndexIn(LowerDigits, c) # 0 THEN IndexIn(LowerDigits, c)
             ELSE IndexIn(UpperDigits, c)
    IN  IF i # 0 /\ i - 1 < radix THEN i - 1 ELSE NoDigit

ByteOk(v) == [ok |-> TRUE, val |-> v]
ByteErr == [ok |-> FALSE, val |-> 0]

U8_MAX == 255

\* the checked multiply-and-add over the digits from position i
RECURSIVE Accumulate(_, _, _, _)
Accumulate(digits, radix, i, acc) ==
    IF i > Len(digits) THEN ByteOk(acc)
    ELSE LET d == to_digit(digits[i], radix)
         IN  IF d = NoDigit THEN ByteErr
             ELSE IF acc * radix + d > U8_MAX THEN ByteErr
             ELSE Accumulate(digits, radix, i + 1, acc * radix + d)

\* u8::from_str_radix(src, radix)
u8_from_str_radix(src, radix) ==
    IF src = <<>> THEN ByteErr
    ELSE IF src \in {<<"+">>, <<"-">>} THEN ByteErr
    ELSE Accumulate(IF src[1] = "+" THEN Tail(src) ELSE src, radix, 1, 0)

HexOk(bytes) == [ok |-> TRUE, bytes |-> bytes, err |-> "none"]
HexErr(e) == [ok |-> FALSE, bytes |-> <<>>, err |-> e]

\* hex::decode(text)
hex_decode(text) ==
    IF Len(text) % 2 # 0 THEN HexErr("OddLength")
    ELSE IF \E i \in 1..Len(text) : to_digit(text[i], 16) = NoDigit
    THEN HexErr("InvalidHexCharacter")
    ELSE HexOk([i \in 1..(Len(text) \div 2) |->
                   16 * to_digit(text[2 * i - 1], 16) + to_digit(text[2 * i], 16)])

(***************************************************************************)
(* receive                                                                 *)
(***************************************************************************)
SYSEX == << "s", "y", "s", "t", "e", "m", "-", "e", "x", "c", "l", "u", "s", "i", "v", "e" >>
HEX == << "h", "e", "x" >>
DEC == << "d", "e", "c" >>

\* the tokens of the lines handed to the assembler
AssembleTokens ==
    { SYSEX, HEX, DEC, <<"3", "0">>, <<"2", "8">>, <<"2", "A">>, <<"Z", "Z">>,
      <<"2", "5", "6">>, <<"+", "7">> }
\* the tokens of the lines the receive loop reads
LoopTokens == { SYSEX, HEX, <<"3", "0">> }

\* a plausible slip: base 16 whatever the second token is
receive_base_always_hex(parts) == 16

\* line 323
receive_base(parts) == IF parts[2] = HEX THEN 16 ELSE 10

\* a plausible slip: the first token that does not parse ends the message
RECURSIVE decode_parts_until_invalid(_, _)
decode_parts_until_invalid(parts, base) ==
    IF parts = <<>> THEN <<>>
    ELSE LET b == u8_from_str_radix(Head(parts), base)
         IN  IF b.ok
             THEN <<b.val>> \o decode_parts_until_invalid(Tail(parts), base)
             ELSE <<>>

\* lines 325-335: the loop over parts[2..]
RECURSIVE decode_parts(_, _)
decode_parts(parts, base) ==
    IF parts = <<>> THEN <<>>
    ELSE LET b == u8_from_str_radix(Head(parts), base)
         IN  IF b.ok
             THEN <<b.val>> \o decode_parts(Tail(parts), base)
             ELSE decode_parts(Tail(parts), base)

\* lines 321-339: the buffer assembled from an accepted line
assemble(parts) ==
    <<INITIATOR>> \o decode_parts(SubSeq(parts, 3, Len(parts)), receive_base(parts))
        \o <<TERMINATOR>>

\* a plausible slip: the file is opened for appending
write_file_append(fs, name, bytes) ==
    [n \in DOMAIN fs \cup {name} |->
        IF n = name
        THEN (IF name \in DOMAIN fs THEN fs[name] ELSE <<>>) \o bytes
        ELSE fs[n]]

\* lines 351-359: File::create truncates, write_all writes the buffer
write_file(fs, name, bytes) ==
    [n \in DOMAIN fs \cup {name} |-> IF n = name THEN bytes ELSE fs[n]]

InitAssemble ==
    /\ cmd = "assemble" /\ pc = "start"
    /\ fileExists = FALSE /\ buffer = <<>> /\ outfile = Absent /\ NoArgs
    /\ messages = <<>> /\ reported = "none" /\ splitFiles = <<>> /\ sections = <<>>
    /\ nread = 0 /\ data = <<>> /\ clock = 0 /\ files = <<>> /\ writes = <<>>
    /\ made = NoMessage
    /\ input \in BoundedSeq(AssembleTokens, MaxTokens)

\* the assembly of one accepted line, lines 316-339
assemble_line ==
    /\ cmd = "assemble" /\ pc = "start"
    /\ Len(input) >= 3
    /\ input[1] = SYSEX
    /\ data' = assemble(input)
    /\ pc' = "done"
    /\ UNCHANGED <<cmd, fileExists, buffer, messages, reported, outfile,
                   splitFiles, sections, nread, input, clock, files, writes,
                   manufacturer, payload, made>>

InitReceive ==
    /\ cmd = "receive" /\ pc = "reading"
    /\ fileExists = FALSE /\ buffer = <<>> /\ outfile = Absent /\ NoArgs
    /\ Idle

\* read_line gives a line (len > 0): lines 313-360
read_line ==
    /\ cmd = "receive" /\ pc = "reading"
    /\ nread < MaxLines
    /\ \E line \in BoundedSeq(LoopTokens, MaxParts), now \in 0..MaxSecond :
          /\ input' = line
          /\ nread' = nread + 1
          /\ IF Len(line) >= 3 /\ line[1] = SYSEX
             THEN /\ data' = assemble(line)
                  /\ clock' = now
                  /\ files' = write_file(files, now, assemble(line))
                  /\ writes' = Append(writes, <<now, assemble(line)>>)
             ELSE UNCHANGED <<data, clock, files, writes>>
    /\ UNCHANGED <<cmd, pc, fileExists, buffer, messages, reported, outfile,
                   splitFiles, sections, manufacturer, payload, made>>

\* read_line gives Ok(0), the end of the input: lines 309-311
read_eof ==
    /\ cmd = "receive" /\ pc = "reading"
    /\ pc' = "done"
    /\ UNCHANGED <<cmd, fileExists, buffer, messages, reported, outfile,
                   splitFiles, sections, nread, input, data, clock, files,
                   writes, manufacturer, payload, made>>

\* read_line gives Err (the input is not UTF-8, or cannot be read): lines 362-365
read_error ==
    /\ cmd = "receive" /\ pc = "reading"
    /\ pc' = "exit1"
    /\ reported' = "ReadError"
    /\ UNCHANGED <<cmd, fileExists, buffer, messages, outfile, splitFiles,
                   sections, nread, input, data, clock, files, writes,
                   manufacturer, payload, made>>

run_receive == read_line \/ read_eof \/ read_error

SpecAssemble == InitAssemble /\ [][assemble_line]_vars
SpecReceive == InitReceive /\ [][run_receive]_vars

(***************************************************************************)
(* make                                                                    *)
(***************************************************************************)
\* the characters the arguments of make are drawn from
ManufChars == {"0", "7", "F", "K"}
PayloadChars == {"7", "K"}

\* the manufacturer registry: one entry, found by its name or a prefix of it
RegistryName == <<"K", "F">>
RegistryCode == <<66>>

\* find_manufacturer(name)
find_manufacturer(name) ==
    IF Len(name) <= Len(RegistryName) /\ SubSeq(RegistryName, 1, Len(name)) = name
    THEN ManufOk(RegistryCode)
    ELSE ManufErr("ManufacturerNotFound")

starts_with(text, prefix) ==
    Len(text) >= Len(prefix) /\ SubSeq(text, 1, Len(prefix)) = prefix

\* a plausible slip: two digits are required whatever the identifier starts with
length_check_two_digits(m) == Len(m) = 2

\* lines 373-384: an identifier starting with 00 has six digits, any other two
length_check(m) ==
    IF starts_with(m, <<"0", "0">>) THEN Len(m) = 6 ELSE Len(m) = 2

\* lines 392-401 and 414-423: the payload is decoded and the message written
MakeMessage(manuf) ==
    LET p == hex_decode(payload)
    IN  IF p.ok
        THEN LET message == ManufacturerSpecific(manuf, p.bytes)
             IN  /\ made' = message
                 /\ outfile' = Written(Message_to_bytes(message))
                 /\ pc' = "done"
                 /\ reported' = reported
        ELSE /\ pc' = "exit1"
             /\ reported' = p.err
             /\ UNCHANGED <<made, outfile>>

InitMake ==
    /\ cmd = "make" /\ pc = "start"
    /\ fileExists = FALSE /\ buffer = <<>>
    /\ Idle
    /\ outfile \in {Absent, Stale}
    /\ manufacturer \in BoundedSeq(ManufChars, MaxManufChars)
    /\ payload \in BoundedSeq(PayloadChars, MaxPayloadChars)

run_make ==
    /\ cmd = "make" /\ pc = "start"
    /\ IF manufacturer = <<>>
       THEN \* manufacturer.chars().nth(0).unwrap()
            pc' = "panic_unwrap" /\ UNCHANGED <<made, outfile, reported>>
       ELSE IF manufacturer[1] \in {"0", "1", "2", "3", "4", "5", "6", "7"}
       THEN IF ~length_check(manufacturer)
            THEN /\ pc' = "exit1"
                 /\ reported' = "ManufacturerIdLength"
                 /\ UNCHANGED <<made, outfile>>
            ELSE LET m == hex_decode(manufacturer)
                 IN  IF m.ok
                     THEN LET manuf == Manufacturer_new(m.bytes)
                          IN  IF manuf.ok
                              THEN MakeMessage(manuf.code)
                              ELSE /\ pc' = "panic_unwrap"
                                   /\ UNCHANGED <<made, outfile, reported>>
                     ELSE /\ pc' = "exit1"
                          /\ reported' = m.err
                          /\ UNCHANGED <<made, outfile>>
       ELSE LET manuf == find_manufacturer(manufacturer)
            IN  IF manuf.ok
                THEN MakeMessage(manuf.code)
                ELSE /\ pc' = "exit1"
                     /\ reported' = manuf.err
                     /\ UNCHANGED <<made, outfile>>
    /\ UNCHANGED <<cmd, fileExists, buffer, messages, splitFiles, sections,
                   nread, input, data, clock, files, writes, manufacturer,
                   payload>>

SpecMake == InitMake /\ [][run_make]_vars

(***************************************************************************)
(* The tool: main dispatches to one command.                               *)
(***************************************************************************)
Init ==
    \/ InitIdentify
    \/ InitExtract
    \/ InitSplit
    \/ InitSections
    \/ InitReceive
    \/ InitMake

Next ==
    \/ run_identify
    \/ run_extract
    \/ run_split
    \/ run_sections
    \/ run_receive
    \/ run_make

Spec == Init /\ [][Next]_vars

(***************************************************************************)
(* Properties of the file commands.                                        *)
(***************************************************************************)
Sum(f) ==
    LET RECURSIVE Upto(_)
        Upto(k) == IF k = 0 THEN 0 ELSE f[k] + Upto(k - 1)
    IN  Upto(Len(f))

\* the sections tile 0..n-1: no gap, no overlap
Covers(s, n) ==
    /\ Len(s) > 0
    /\ s[1].offset = 0
    /\ \A k \in 2..Len(s) : s[k].offset = s[k - 1].offset + s[k - 1].length
    /\ s[Len(s)].offset + s[Len(s)].length = n
    /\ Sum([k \in 1..Len(s) |-> s[k].length]) = n

\* C1: for every buffer that parses, the sections printed by the sections
\* command cover the whole buffer without gaps or overlaps, so their lengths
\* sum to the buffer length.
C1_SectionsCoverBuffer ==
    (cmd = "sections" /\ pc = "done" /\ fileExists /\ Message_new(buffer).ok)
        => Covers(sections, Len(buffer))

\* the complete spans of a buffer: an initiator, a terminator after it, and
\* neither of the two in between
SpanSet(b) ==
    {s \in (1..Len(b)) \X (1..Len(b)) :
        /\ s[1] < s[2]
        /\ b[s[1]] = INITIATOR
        /\ b[s[2]] = TERMINATOR
        /\ \A k \in (s[1] + 1)..(s[2] - 1) : b[k] \notin {INITIATOR, TERMINATOR}}

\* every initiator has a terminator after it, with no initiator in between
Balanced(b) ==
    \A i \in 1..Len(b) :
        b[i] = INITIATOR =>
            \E j \in (i + 1)..Len(b) :
                /\ b[j] = TERMINATOR
                /\ \A k \in (i + 1)..(j - 1) : b[k] # INITIATOR

\* parts holds the spans of b, in buffer order
IsSpansInOrder(parts, b) ==
    /\ Len(parts) = Cardinality(SpanSet(b))
    /\ \A s \in SpanSet(b) :
           parts[1 + Cardinality({t \in SpanSet(b) : t[1] < s[1]})]
               = SubSeq(b, s[1], s[2])

\* C3: on a balanced buffer split_messages yields message_count elements, the
\* complete spans in buffer order, and split writes them to the files
\* numbered 1..count when count > 1 (and no file otherwise).
C3_SplitMatchesCount ==
    (cmd = "split" /\ pc = "done" /\ fileExists /\ Balanced(buffer)) =>
        LET n == message_count(buffer)
            parts == split_messages(buffer)
        IN  /\ Len(parts) = n
            /\ IsSpansInOrder(parts, buffer)
            /\ IF n > 1
               THEN /\ DOMAIN splitFiles = 1..n
                    /\ \A k \in 1..n : splitFiles[k] = parts[k]
               ELSE DOMAIN splitFiles = {}

C3_Witness ==
    /\ cmd = "split" /\ pc = "done" /\ fileExists /\ Balanced(buffer)
    /\ message_count(buffer) = 2
    /\ DOMAIN splitFiles = 1..2
    /\ splitFiles[1] # splitFiles[2]

\* C5: identify, extract and sections never abort on a malformed input
\* buffer: no failed unwrap of a parse result, no buffer length - 1 on an
\* empty buffer.
C5_NoPanicOnMalformedInput ==
    pc \notin {"panic_unwrap", "panic_overflow"}

\* C6: when the buffer holds exactly one message, extract parses the single
\* complete span, so stray bytes around it change nothing: the payload of
\* that span is written.
C6_StrayBytesIgnored ==
    (cmd = "extract" /\ pc = "done" /\ fileExists /\ message_count(buffer) = 1) =>
        \A s \in SpanSet(buffer) :
            LET r == Message_new(SubSeq(buffer, s[1], s[2]))
            IN  r.ok => outfile = Written(r.msg.payload)

\* the bytes of a framed buffer after the header and before the terminator
PayloadSlice(b) ==
    LET hdr == IF b[2] \in {NON_REAL_TIME, REAL_TIME} THEN 4
               ELSE IF b[2] = 0 THEN 3
               ELSE 1
    IN  SubSeq(b, 2 + hdr, Len(b) - 1)

\* C7: extract writes the output file only when the buffer holds at most one
\* message and parses, and then writes exactly the payload; otherwise the
\* output file is left as it was.
C7_ExtractWritesPayloadOnly ==
    [][(cmd = "extract" /\ pc = "start") =>
          IF fileExists /\ message_count(buffer) <= 1 /\ Message_new(buffer).ok
          THEN outfile' = Written(PayloadSlice(buffer))
          ELSE outfile' = outfile]_vars

C7_Witness ==
    /\ cmd = "extract" /\ pc = "done" /\ fileExists
    /\ message_count(buffer) = 1
    /\ Len(buffer) = 6
    /\ buffer[2] = 0
    /\ outfile = Written(<<buffer[5]>>)

(***************************************************************************)
(* Properties of receive.                                                  *)
(***************************************************************************)
\* d is the initiator, then the values of the tokens of toks that parse as a
\* byte in the base, in their order, then the terminator
IsAssembly(d, toks, base) ==
    LET valid == {i \in 1..Len(toks) : u8_from_str_radix(toks[i], base).ok}
    IN  /\ Len(d) = 2 + Cardinality(valid)
        /\ d[1] = INITIATOR
        /\ d[Len(d)] = TERMINATOR
        /\ \A i \in valid :
               d[1 + Cardinality({j \in valid : j <= i})]
                   = u8_from_str_radix(toks[i], base).val

BaseIndicated(line) == IF line[2] = HEX THEN 16 ELSE 10

\* C4: the buffer assembled from an accepted line is 0xF0, the values of the
\* byte tokens that parse in the selected base, in their order, and 0xF7; a
\* token that does not parse is skipped, so the length is 2 plus the number
\* of valid tokens.
C4_AssembleSkipsInvalidTokens ==
    (cmd = "assemble" /\ pc = "done") =>
        IsAssembly(data, SubSeq(input, 3, Len(input)), BaseIndicated(input))

\* the example of the specification: hex 30 ZZ 28 gives F0 30 28 F7
C4_Witness ==
    /\ cmd = "assemble" /\ pc = "done"
    /\ input = << SYSEX, HEX, <<"3", "0">>, <<"Z", "Z">>, <<"2", "8">> >>
    /\ data = <<240, 48, 40, 247>>

\* C8: each line read is handled as it is read; a line of at least three
\* tokens whose first token is system-exclusive gives exactly one buffer,
\* assembled in base 16 if and only if the second token is hex and in base
\* 10 otherwise, and written; any other line gives no buffer and no file;
\* the loop ends at the end of the input, without reading or writing.
C8_OneBufferPerAcceptedLine ==
    [][(cmd = "receive") =>
          /\ pc = "reading"
          /\ IF nread' = nread + 1
             THEN /\ pc' = "reading"
                  /\ IF Len(input') >= 3 /\ input'[1] = SYSEX
                     THEN /\ Len(writes') = Len(writes) + 1
                          /\ SubSeq(writes', 1, Len(writes)) = writes
                          /\ IsAssembly(writes'[Len(writes')][2],
                                        SubSeq(input', 3, Len(input')),
                                        BaseIndicated(input'))
                          /\ data' = writes'[Len(writes')][2]
                     ELSE UNCHANGED <<writes, files, data>>
             ELSE /\ pc' \in {"done", "exit1"}
                  /\ UNCHANGED <<nread, writes, files, data>>]_vars

C8_Witness ==
    /\ cmd = "receive" /\ pc = "done" /\ nread = 2
    /\ Len(writes) = 1
    /\ input = << SYSEX, <<"3", "0">>, <<"3", "0">> >>
    /\ data = <<240, 30, 247>>

\* the seconds in which a line was accepted
WriteSeconds == {writes[k][1] : k \in 1..Len(writes)}
\* the last write of second s
LastWrite(s) ==
    LET k == CHOOSE k \in 1..Len(writes) :
                 /\ writes[k][1] = s
                 /\ \A j \in (k + 1)..Len(writes) : writes[j][1] # s
    IN  writes[k][2]

\* C9: the files are named by the second of the write and truncated, so the
\* file of a second holds the last buffer assembled in that second, and
\* there are as many files as seconds in which a line was accepted.
C9_FilePerSecondHoldsLastBuffer ==
    (cmd = "receive") =>
        /\ DOMAIN files = WriteSeconds
        /\ \A s \in WriteSeconds : files[s] = LastWrite(s)
        /\ Cardinality(DOMAIN files) = Cardinality(WriteSeconds)

\* two lines accepted in one second: one file, holding the second buffer
C9_Witness ==
    /\ cmd = "receive" /\ Len(writes) = 2
    /\ writes[1][1] = writes[2][1]
    /\ writes[1][2] # writes[2][2]
    /\ Cardinality(DOMAIN files) = 1
    /\ files[clock] = writes[2][2]

(***************************************************************************)
(* Properties of make.                                                     *)
(***************************************************************************)
\* C2: every message that can be constructed, a manufacturer-specific one with
\* the codes 0x7E and 0x7F included, is parsed back from its bytes: the parse
\* of the file make wrote succeeds and gives the message make constructed.
C2_RoundTrip ==
    (cmd = "make" /\ pc = "done") =>
        /\ outfile = Written(Message_to_bytes(made))
        /\ Message_new(outfile.bytes) = ParseOk(made)

HexBranch(m) == m # <<>> /\ m[1] \in {"0", "1", "2", "3", "4", "5", "6", "7"}

\* the identifier has the digits of its kind and they decode
IdentifierPasses(m) ==
    /\ \/ Len(m) = 6 /\ m[1] = "0" /\ m[2] = "0"
       \/ Len(m) = 2 /\ ~(m[1] = "0" /\ m[2] = "0")
    /\ \A i \in 1..Len(m) : to_digit(m[i], 16) # NoDigit

\* C10: in the hex-identifier branch of make, an identifier that passes the
\* length checks and decodes is one byte in 0x01..0x7F or three bytes
\* starting with 0x00, so Manufacturer::new succeeds and its unwrap does not
\* fail; any other identifier ends in an error exit without writing the
\* output file.
C10_HexIdentifierAlwaysConstructs ==
    [][(cmd = "make" /\ pc = "start" /\ HexBranch(manufacturer)) =>
          IF IdentifierPasses(manufacturer)
          THEN LET bytes == hex_decode(manufacturer).bytes
               IN  /\ \/ Len(bytes) = 1 /\ bytes[1] >= 1 /\ bytes[1] <= 127
                      \/ Len(bytes) = 3 /\ bytes[1] = 0
                   /\ pc' # "panic_unwrap"
                   /\ pc' = "done" => made'.manufacturer = bytes
          ELSE pc' = "exit1" /\ outfile' = outfile]_vars

C10_Witness ==
    /\ cmd = "make" /\ pc = "done"
    /\ manufacturer = <<"0", "0", "7", "F", "0", "7">>
    /\ outfile = Written(<<240, 0, 127, 7, 119, 247>>)

====
